---------------------------- MODULE Spec2Model ----------------------------
(***************************************************************************)
(* A model of mps_youtube/pafy.py: the adapter between the media browser   *)
(* and its external services (the yt_dlp extraction engine, the py_yt      *)
(* search/metadata client, and the return-youtube-dislike HTTP API).       *)
(*                                                                         *)
(* Three specifications are given.                                         *)
(*   SpecId  : extract_video_id applied to input strings.  Strings are     *)
(*             sequences of one-character strings, and the regular         *)
(*             expression, str.strip, urlparse and parse_qs are computed   *)
(*             character by character.                                     *)
(*   Spec    : the operations that call the external services, one call    *)
(*             of one operation at a time (the module is synchronous),     *)
(*             with every answer of a service chosen nondeterministically. *)
(*   SpecSub : get_subtitles called again and again with several ids and   *)
(*             output directories, over the subtitle files on disk.        *)
(***************************************************************************)
EXTENDS Integers, Sequences, FiniteSets, TLC

VARIABLES
    idShape,    \* how the input string of extract_video_id was put together
    idInput,    \* the string passed to extract_video_id
    idPc,       \* "start", "applied", "reapplied"
    idRes,      \* what the last call of extract_video_id did
    idPrev,     \* the value the first call returned, once it is fed back
    op,         \* the operation called last ("none" before the first call)
    pc,         \* "idle", or "await" while the operation waits for a service
    arg,        \* the arguments of the call
    calls,      \* the external calls the operation has made, in order
    seen,       \* the answers it has received, in order
    inflight,   \* the number of external calls made and not yet answered
    failed,     \* whether one of its external calls has raised
    out,        \* what the caller got: a value returned or an exception
    loop,       \* the event loop of asyncio.run: "none", "running", "closed"
    wdata,      \* the list a paging operation is building
    files,      \* the .vtt subtitle files on disk (no other file is ever read)
    subs,       \* per (ytid, output_dir): the path a call with these arguments
                \* downloaded and returned, while its file has been there since
    pre         \* get_subtitles: that path, as it was when the call was made

idvars == <<idShape, idInput, idPc, idRes, idPrev>>

opvars == <<op, pc, arg, calls, seen, inflight, failed, out, loop, wdata>>

fsvars == <<files, subs, pre>>

vars == <<idShape, idInput, idPc, idRes, idPrev,
          op, pc, arg, calls, seen, inflight, failed, out, loop, wdata,
          files, subs, pre>>

---------------------------------------------------------------------------
(* Characters and strings *)

Lower == <<"a", "b", "c", "d", "e", "f", "g", "h", "i", "j", "k", "l", "m",
           "n", "o", "p", "q", "r", "s", "t", "u", "v", "w", "x", "y", "z">>

Upper == <<"A", "B", "C", "D", "E", "F", "G", "H", "I", "J", "K", "L", "M",
           "N", "O", "P", "Q", "R", "S", "T", "U", "V", "W", "X", "Y", "Z">>

Digits == <<"0", "1", "2", "3", "4", "5", "6", "7", "8", "9">>

\* The printable ASCII characters, code 32 to code 126 in order ("GRAVE"
\* stands for the grave accent, code 96, which a string here cannot hold).
Ascii == <<" ", "!", "\"", "#", "$", "%", "&", "'", "(", ")", "*", "+", ",",
           "-", ".", "/", "0", "1", "2", "3", "4", "5", "6", "7", "8", "9",
           ":", ";", "<", "=", ">", "?", "@", "A", "B", "C", "D", "E", "F",
           "G", "H", "I", "J", "K", "L", "M", "N", "O", "P", "Q", "R", "S",
           "T", "U", "V", "W", "X", "Y", "Z", "[", "\\", "]", "^", "_", "GRAVE",
           "a", "b", "c", "d", "e", "f", "g", "h", "i", "j", "k", "l", "m",
           "n", "o", "p", "q", "r", "s", "t", "u", "v", "w", "x", "y", "z",
           "{", "|", "}", "~">>

Range(s) == {s[i] : i \in 1..Len(s)}

Alpha == Range(Lower) \cup Range(Upper)

\* \w of the re module, on the ASCII characters.
WordChars == Alpha \cup Range(Digits) \cup {"_"}

\* str.strip() removes these (of the ASCII characters the model's strings hold).
Whitespace == {" ", "\t", "\n", "\r"}

\* The length the regular expression asks for: {11}.
IdLen == 11

\* The character class [\w-] of idregx.
IsIdChar(c) == c \in WordChars \cup {"-"}

\* The same with "-" forgotten: [\w]{11}$.
idregx_match_nodash(s) ==
    /\ Len(s) >= IdLen
    /\ \A i \in 1..IdLen : s[i] \in WordChars
    /\ \/ Len(s) = IdLen
       \/ Len(s) = IdLen + 1 /\ s[IdLen + 1] = "\n"

\* idregx.match(s) for idregx = re.compile(r'[\w-]{11}$'): eleven characters
\* of the class from the start of s, then "$", which matches at the end of s
\* and also just before a newline that ends s.
idregx_match(s) ==
    /\ Len(s) >= IdLen
    /\ \A i \in 1..IdLen : IsIdChar(s[i])
    /\ \/ Len(s) = IdLen
       \/ Len(s) = IdLen + 1 /\ s[IdLen + 1] = "\n"

RECURSIVE lstrip(_)
lstrip(s) == IF s # <<>> /\ Head(s) \in Whitespace THEN lstrip(Tail(s)) ELSE s

RECURSIVE rstrip(_)
rstrip(s) ==
    IF s # <<>> /\ s[Len(s)] \in Whitespace
    THEN rstrip(SubSeq(s, 1, Len(s) - 1))
    ELSE s

\* str(url).strip()
str_strip(s) == rstrip(lstrip(s))

\* s.find(c) + 1: the first position of character c in s, 0 when there is none.
Find(s, c) ==
    IF \E i \in 1..Len(s) : s[i] = c
    THEN CHOOSE i \in 1..Len(s) : s[i] = c /\ \A j \in 1..(i - 1) : s[j] # c
    ELSE 0

\* s.rfind(c) + 1
RFind(s, c) ==
    IF \E i \in 1..Len(s) : s[i] = c
    THEN CHOOSE i \in 1..Len(s) : s[i] = c /\ \A j \in (i + 1)..Len(s) : s[j] # c
    ELSE 0

\* sub in s
Contains(s, sub) ==
    \E i \in 1..(Len(s) - Len(sub) + 1) : SubSeq(s, i, i + Len(sub) - 1) = sub

\* s.split(c): the pieces of s between the occurrences of c.
RECURSIVE Split(_, _)
Split(s, c) ==
    LET i == Find(s, c)
    IN  IF i = 0
        THEN <<s>>
        ELSE <<SubSeq(s, 1, i - 1)>> \o Split(SubSeq(s, i + 1, Len(s)), c)

\* s.replace(a, b) for single characters.
Replace(s, a, b) == [i \in 1..Len(s) |-> IF s[i] = a THEN b ELSE s[i]]

\* str.lower() on the ASCII letters.
LowerChar(c) ==
    IF \E i \in 1..Len(Upper) : Upper[i] = c
    THEN Lower[CHOOSE i \in 1..Len(Upper) : Upper[i] = c]
    ELSE c

ToLower(s) == [i \in 1..Len(s) |-> LowerChar(s[i])]

---------------------------------------------------------------------------
(* urllib.parse, as extract_video_id uses it *)

HexLower == <<"0", "1", "2", "3", "4", "5", "6", "7", "8", "9",
              "a", "b", "c", "d", "e", "f">>

HexUpper == <<"0", "1", "2", "3", "4", "5", "6", "7", "8", "9",
              "A", "B", "C", "D", "E", "F">>

IsHex(c) == c \in Range(HexLower) \cup Range(HexUpper)

HexVal(c) ==
    IF c \in Range(HexLower)
    THEN (CHOOSE i \in 1..Len(HexLower) : HexLower[i] = c) - 1
    ELSE (CHOOSE i \in 1..Len(HexUpper) : HexUpper[i] = c) - 1

\* The character a percent-escaped byte decodes to.  A byte that is no ASCII
\* character on its own decodes (errors='replace') to U+FFFD, which is no
\* word character; multi-byte UTF-8 sequences are outside the model's strings.
ByteChar(b) ==
    IF b >= 32 /\ b <= 126 THEN Ascii[b - 31]
    ELSE IF b = 10 THEN "\n"
    ELSE IF b = 9 THEN "\t"
    ELSE IF b = 13 THEN "\r"
    ELSE "U+FFFD"

\* urllib.parse.unquote: every %XX with two hex digits is decoded, anything
\* else is kept.
RECURSIVE unquote(_)
unquote(s) ==
    IF s = <<>> THEN <<>>
    ELSE IF s[1] = "%" /\ Len(s) >= 3 /\ IsHex(s[2]) /\ IsHex(s[3])
    THEN <<ByteChar(16 * HexVal(s[2]) + HexVal(s[3]))>>
             \o unquote(SubSeq(s, 4, Len(s)))
    ELSE <<s[1]>> \o unquote(Tail(s))

\* One "name=value" field of a query string, as parse_qsl keeps it: a field
\* with no "=" or with an empty value is dropped (keep_blank_values=False),
\* "+" becomes a space and percent-escapes are decoded in name and value.
qsl_field(nv) ==
    LET i == Find(nv, "=")
        name == SubSeq(nv, 1, i - 1)
        value == SubSeq(nv, i + 1, Len(nv))
    IN  IF nv = <<>> \/ i = 0 \/ value = <<>>
        THEN <<>>
        ELSE <<[name  |-> unquote(Replace(name, "+", " ")),
                value |-> unquote(Replace(value, "+", " "))]>>

RECURSIVE qsl_fields(_)
qsl_fields(parts) ==
    IF parts = <<>> THEN <<>>
    ELSE qsl_field(Head(parts)) \o qsl_fields(Tail(parts))

\* parse_qsl(qs): the (name, value) pairs of the query, split at "&".
parse_qsl(qs) == IF qs = <<>> THEN <<>> ELSE qsl_fields(Split(qs, "&"))

IsV(f) == f.name = <<"v">>

\* parse_qs(qs)['v'] : the values of the fields named v, in order; the empty
\* sequence stands for 'v' not being a key.
parse_qs_v(qs) ==
    LET fs == SelectSeq(parse_qsl(qs), IsV)
    IN  [i \in 1..Len(fs) |-> fs[i].value]

\* urllib.parse.scheme_chars
SchemeChars == Alpha \cup Range(Digits) \cup {"+", "-", "."}

\* urllib.parse.uses_params
uses_params ==
    {<<>>,
     <<"f", "t", "p">>,
     <<"h", "d", "l">>,
     <<"p", "r", "o", "s", "p", "e", "r", "o">>,
     <<"h", "t", "t", "p">>,
     <<"i", "m", "a", "p">>,
     <<"h", "t", "t", "p", "s">>,
     <<"s", "h", "t", "t", "p">>,
     <<"r", "t", "s", "p">>,
     <<"r", "t", "s", "p", "u">>,
     <<"s", "i", "p">>,
     <<"s", "i", "p", "s">>,
     <<"m", "m", "s">>,
     <<"s", "f", "t", "p">>,
     <<"t", "e", "l">>}

NotUnsafe(c) == c \notin {"\t", "\r", "\n"}

\* The first position from 3 on of one of "/", "?", "#" in s, Len(s) + 1 when
\* there is none (_splitnetloc).
NetlocEnd(s) ==
    IF \E i \in 3..Len(s) : s[i] \in {"/", "?", "#"}
    THEN CHOOSE i \in 3..Len(s) :
             /\ s[i] \in {"/", "?", "#"}
             /\ \A j \in 3..(i - 1) : s[j] \notin {"/", "?", "#"}
    ELSE Len(s) + 1

\* _splitparams(path): ";" and what follows it in the last path segment.
PathNoParams(path) ==
    LET from == IF Contains(path, <<"/">>) THEN RFind(path, "/") ELSE 1
        rest == SubSeq(path, from, Len(path))
        i == Find(rest, ";")
    IN  IF i = 0 THEN path ELSE SubSeq(path, 1, from + i - 2)

\* What comes before the first c in s (all of s when there is none), and
\* what comes after it (nothing when there is none).
BeforeChar(s, c) ==
    LET i == Find(s, c) IN IF i = 0 THEN s ELSE SubSeq(s, 1, i - 1)

AfterChar(s, c) ==
    LET i == Find(s, c) IN IF i = 0 THEN <<>> ELSE SubSeq(s, i + 1, Len(s))

\* urlsplit takes what is before the first ":" for a scheme when it starts
\* with a letter and is made of scheme characters.
HasScheme(url) ==
    LET i == Find(url, ":")
    IN  /\ i > 1
        /\ url[1] \in Alpha
        /\ \A k \in 1..(i - 1) : url[k] \in SchemeChars

\* url[:2] == '//'
HasNetloc(url) == Len(url) >= 2 /\ url[1] = "/" /\ url[2] = "/"

\* The path urlparse keeps: with the params split off for the schemes that
\* use them.
urlparse_path(scheme, path) ==
    IF scheme \in uses_params THEN PathNoParams(path) ELSE path

\* The result for a scheme, a netloc and what follows the netloc: the fragment
\* is cut at the first "#", then the query at the first "?".  error is
\* whether urlsplit raises ValueError("Invalid IPv6 URL"), which it does for a
\* netloc with one square bracket and not the other.  (Params and fragment
\* are not kept: extract_video_id reads neither.)
urlparse_result(scheme, netloc, rest) ==
    [scheme |-> scheme,
     netloc |-> netloc,
     path   |-> urlparse_path(scheme, BeforeChar(BeforeChar(rest, "#"), "?")),
     query  |-> AfterChar(BeforeChar(rest, "#"), "?"),
     error  |-> ("[" \in Range(netloc)) # ("]" \in Range(netloc))]

\* urlsplit after the scheme: the netloc, when the rest starts with "//".
urlsplit_netloc(scheme, url) ==
    IF HasNetloc(url)
    THEN urlparse_result(scheme, SubSeq(url, 3, NetlocEnd(url) - 1),
                         SubSeq(url, NetlocEnd(url), Len(url)))
    ELSE urlparse_result(scheme, <<>>, url)

\* urlsplit from the scheme on; the scheme is lowercased.
urlsplit_scheme(url) ==
    IF HasScheme(url)
    THEN urlsplit_netloc(ToLower(BeforeChar(url, ":")), AfterChar(url, ":"))
    ELSE urlsplit_netloc(<<>>, url)

\* urlparse(url): leading whitespace and every tab, carriage return and
\* newline are removed first.
urlparse(url) == urlsplit_scheme(SelectSeq(lstrip(url), NotUnsafe))

---------------------------------------------------------------------------
(* extract_video_id *)

youtube_com == <<"y", "o", "u", "t", "u", "b", "e", ".", "c", "o", "m">>

www_youtube_com == <<"w", "w", "w", ".">> \o youtube_com

m_youtube_com == <<"m", ".">> \o youtube_com

gaming_youtube_com == <<"g", "a", "m", "i", "n", "g", ".">> \o youtube_com

youtu_be == <<"y", "o", "u", "t", "u", ".", "b", "e">>

www_youtu_be == <<"w", "w", "w", ".">> \o youtu_be

\* The netlocs of the two branches.
WatchNetlocs == {youtube_com, www_youtube_com, m_youtube_com, gaming_youtube_com}

ShortNetlocs == {youtu_be, www_youtu_be}

NeedMsg == "Need 11 character video id or the URL of the video. Got %s"

IPv6Msg == "Invalid IPv6 URL"

Returned(v) == [outcome |-> "return", value |-> v, exc |-> "", msg |-> "", got |-> <<>>]

Raised(m, g) == [outcome |-> "raise", value |-> <<>>, exc |-> "ValueError", msg |-> m, got |-> g]

NoResult == [outcome |-> "none", value |-> <<>>, exc |-> "", msg |-> "", got |-> <<>>]

\* The url that is parsed: "//" is put before it when "://" occurs nowhere in it.
with_slashes(url) ==
    IF ~Contains(url, <<":", "/", "/">>) THEN <<"/", "/">> \o url ELSE url

\* The last "/"-separated piece of the path, '' for an empty path.
last_segment(path) ==
    IF path # <<>>
    THEN LET parts == Split(path, "/") IN parts[Len(parts)]
    ELSE <<>>

\* extract_video_id(url): the value returned, or the ValueError raised with
\* its message and the string the message is formatted with.
extract_video_id(u) ==
    LET url == str_strip(u)
        url2 == with_slashes(url)
        parsedurl == urlparse(url2)
        v == parse_qs_v(parsedurl.query)
        vidid == last_segment(parsedurl.path)
    IN  IF idregx_match(url) THEN Returned(url)
        ELSE IF parsedurl.error THEN Raised(IPv6Msg, <<>>)
        ELSE IF parsedurl.netloc \in WatchNetlocs
        THEN IF v # <<>> /\ idregx_match(v[1])
             THEN Returned(v[1])
             ELSE Raised(NeedMsg, url2)
        ELSE IF parsedurl.netloc \in ShortNetlocs /\ idregx_match(vidid)
        THEN Returned(vidid)
        ELSE Raised(NeedMsg, url2)

---------------------------------------------------------------------------
(* The input strings of SpecId *)

ID1 == <<"L", "D", "U", "_", "T", "x", "k", "0", "6", "t", "M">>

ID2 == <<"a", "-", "b", "_", "c", "-", "d", "_", "e", "-", "f">>

\* A well-formed video id, stated without the regular expression.
IsValidId(s) == Len(s) = IdLen /\ \A i \in 1..Len(s) : IsIdChar(s[i])

\* ID1 with the character at position p replaced by c.
Subst(p, c) == [i \in 1..IdLen |-> IF i = p THEN c ELSE ID1[i]]

\* Bare strings: the two ids, ID1 with one character replaced, and strings one
\* character too short or too long.
BareTexts ==
    {ID1, ID2}
    \cup {Subst(p, c) : p \in 1..IdLen, c \in {"a", "Z", "7", "-", "_", ".", " ", "\n", "%"}}
    \cup {SubSeq(ID1, 1, IdLen - 1), ID1 \o <<"x">>, ID1 \o <<"\n">>, ID1 \o <<"\n", "\n">>,
          ID1 \o <<" ", "x">>, <<>>}

Pres == {<<>>, <<" ">>}

Posts == {<<>>, <<"\n">>, <<" ", "\t">>}

Schemes == {<<>>, <<"h", "t", "t", "p", ":", "/", "/">>,
            <<"h", "t", "t", "p", "s", ":", "/", "/">>}

Hosts == WatchNetlocs \cup ShortNetlocs
         \cup {<<"e", "x", "a", "m", "p", "l", "e", ".", "c", "o", "m">>, <<"[", "a">>}

\* A path with its last segment.
Paths ==
    {[text |-> <<>>, last |-> <<>>],
     [text |-> <<"/", "w", "a", "t", "c", "h">>, last |-> <<"w", "a", "t", "c", "h">>],
     [text |-> <<"/">> \o ID1, last |-> ID1],
     [text |-> <<"/", "x", "/">> \o ID2, last |-> ID2],
     [text |-> <<"/">> \o ID1 \o <<"/">>, last |-> <<>>],
     [text |-> <<"/">> \o SubSeq(ID1, 1, IdLen - 1), last |-> SubSeq(ID1, 1, IdLen - 1)],
     [text |-> <<"/">> \o ID1 \o <<"%", "0", "A">>, last |-> ID1 \o <<"%", "0", "A">>]}

\* "No v parameter".
NoV == <<"none">>

QV == <<"?", "v", "=">>

\* A query (with its "?") and the decoded value of its first v parameter.
Queries ==
    {[text |-> <<>>, v |-> NoV],
     [text |-> QV \o ID1, v |-> ID1],
     [text |-> <<"?", "a", "=", "b", "&", "v", "=">> \o ID2, v |-> ID2],
     [text |-> QV \o ID1 \o <<"&", "v", "=">> \o ID2, v |-> ID1],
     [text |-> QV \o ID2 \o <<"#", "t">>, v |-> ID2],
     [text |-> QV \o ID1 \o <<"&", "u", "=", "a", ":", "/", "/", "b">>, v |-> ID1],
     [text |-> QV \o ID1 \o <<"%", "0", "A">>, v |-> ID1 \o <<"\n">>],
     [text |-> QV \o ID1 \o <<"%", "2", "0">>, v |-> ID1 \o <<" ">>],
     [text |-> QV \o SubSeq(ID1, 1, 6) \o <<"%", "2", "D">> \o SubSeq(ID1, 8, IdLen),
      v |-> Subst(7, "-")],
     [text |-> QV \o SubSeq(ID1, 1, IdLen - 1), v |-> SubSeq(ID1, 1, IdLen - 1)],
     [text |-> QV \o ID1 \o <<"x">>, v |-> ID1 \o <<"x">>],
     [text |-> <<"?", "x", "=">> \o ID1, v |-> NoV]}

\* The inputs: a bare string, or scheme, host, path and query put together,
\* each with whitespace around it.
Shapes ==
    [kind : {"bare"}, pre : Pres, scheme : {<<>>}, host : {<<>>},
     path : {[text |-> t, last |-> t] : t \in BareTexts},
     query : {[text |-> <<>>, v |-> NoV]}, post : Posts]
    \cup
    [kind : {"url"}, pre : Pres, scheme : Schemes, host : Hosts,
     path : Paths, query : Queries, post : Posts]

Flatten(sh) == sh.pre \o sh.scheme \o sh.host \o sh.path.text \o sh.query.text \o sh.post

---------------------------------------------------------------------------
(* The external services and what the caller of an operation gets *)

\* The extraction engine.
YTDL == "yt_dlp"

\* The search/metadata client.
PYYT == "py_yt"

\* The dislike-count HTTP API that return_dislikes requests.
RYD == "returnyoutubedislikeapi.com"

Call(s, m) == [svc |-> s, m |-> m]

\* An external call that raised.
Fail == [kind |-> "fail"]

\* An external call that answered with payload v.
Ok(v) == [kind |-> "ok", v |-> v]

NoArg == [pages |-> 0, ytid |-> "", dir |-> <<>>, query |-> ""]

Ret(v) == [outcome |-> "return", exc |-> "", value |-> v]

\* The exception the caller gets: "engine" is whatever the external call
\* raised, unchanged.
Exc(e) == [outcome |-> "raise", exc |-> e, value |-> <<>>]

NoOut == [outcome |-> "none", exc |-> "", value |-> <<>>]

AnyFail(sn) == \E i \in 1..Len(sn) : sn[i].kind = "fail"

\* The operation o, called with a, made the calls cs, got the answers sn and
\* ended with res; lp is the state of its event loop, if it had one.
Finish(o, a, cs, sn, res, lp) ==
    /\ op' = o
    /\ arg' = a
    /\ calls' = cs
    /\ seen' = sn
    /\ failed' = AnyFail(sn)
    /\ out' = res
    /\ loop' = lp
    /\ pc' = "idle"
    /\ inflight' = 0
    /\ wdata' = <<>>

\* The operation o, called with a, makes its first awaited call c inside the
\* event loop that asyncio.run has just created.
Begin(o, a, c) ==
    /\ op' = o
    /\ arg' = a
    /\ calls' = <<c>>
    /\ seen' = <<>>
    /\ failed' = FALSE
    /\ out' = NoOut
    /\ loop' = "running"
    /\ pc' = "await"
    /\ inflight' = 1
    /\ wdata' = <<>>

\* The awaited call was answered with r and the operation awaits the call c next.
Continue(r, c, w) ==
    /\ seen' = Append(seen, r)
    /\ calls' = Append(calls, c)
    /\ wdata' = w
    /\ inflight' = 1
    /\ UNCHANGED <<op, arg, failed, out, loop, pc>>

\* The awaited call was answered with r and the coroutine ends with res:
\* asyncio.run closes the loop, whether res is a value or an exception.
End(r, res, w) ==
    /\ seen' = Append(seen, r)
    /\ failed' = (failed \/ r.kind = "fail")
    /\ out' = res
    /\ wdata' = w
    /\ loop' = "closed"
    /\ pc' = "idle"
    /\ inflight' = 0
    /\ UNCHANGED <<op, arg, calls>>

---------------------------------------------------------------------------
(* The operations that make one request *)

\* The format_note values of the formats an extraction may report.
FormatLists == {<<>>, <<"storyboard", "720p">>, <<"medium", "storyboard", "storyboard">>}

NotStoryboard(n) == n # "storyboard"

\* get_video_streams(ytid)
get_video_streams ==
    /\ pc = "idle"
    /\ \/ Finish("get_video_streams", NoArg, <<Call(YTDL, "YoutubeDL")>>, <<Fail>>,
                 Exc("engine"), "none")
       \/ Finish("get_video_streams", NoArg,
                 <<Call(YTDL, "YoutubeDL"), Call(YTDL, "extract_info")>>,
                 <<Ok(<<>>), Fail>>, Exc("engine"), "none")
       \/ \E f \in FormatLists :
              Finish("get_video_streams", NoArg,
                     <<Call(YTDL, "YoutubeDL"), Call(YTDL, "extract_info")>>,
                     <<Ok(<<>>), Ok(f)>>, Ret(SelectSeq(f, NotStoryboard)), "none")
    /\ UNCHANGED <<idvars, fsvars>>

\* download_video(ytid, folder, audio_only)
download_video ==
    /\ pc = "idle"
    /\ \E audio_only \in BOOLEAN :
          LET a == [NoArg EXCEPT !.query = IF audio_only THEN "bestaudio/best" ELSE ""]
          IN  \/ Finish("download_video", a, <<Call(YTDL, "YoutubeDL")>>, <<Fail>>,
                        Exc("engine"), "none")
              \/ Finish("download_video", a,
                        <<Call(YTDL, "YoutubeDL"), Call(YTDL, "download")>>,
                        <<Ok(<<>>), Fail>>, Exc("engine"), "none")
              \/ Finish("download_video", a,
                        <<Call(YTDL, "YoutubeDL"), Call(YTDL, "download")>>,
                        <<Ok(<<>>), Ok(<<>>)>>, Ret(TRUE), "none")
    /\ UNCHANGED <<idvars, fsvars>>

\* The 'result' lists a search may answer with: channels, playlists, suggestions.
ResultLists == {<<>>, <<"r1">>, <<"r1", "r2">>}

\* One awaited next()/get() of the search client, whose answer's 'result' is
\* returned: channel_search and playlist_search.
search_once(o, m) ==
    \/ Finish(o, NoArg, <<Call(PYYT, m)>>, <<Fail>>, Exc("engine"), "closed")
    \/ \E l \in ResultLists :
           Finish(o, NoArg, <<Call(PYYT, m)>>, <<Ok(l)>>, Ret(l), "closed")

\* channel_search(query)
channel_search ==
    /\ pc = "idle"
    /\ search_once("channel_search", "ChannelsSearch.next")
    /\ UNCHANGED <<idvars, fsvars>>

\* playlist_search(query)
playlist_search ==
    /\ pc = "idle"
    /\ search_once("playlist_search", "PlaylistsSearch.next")
    /\ UNCHANGED <<idvars, fsvars>>

\* get_video_title_suggestions(query): one of the related searches, picked by
\* random.randint, or the query itself when there is none.
get_video_title_suggestions ==
    /\ pc = "idle"
    /\ LET a == [NoArg EXCEPT !.query = "q"]
       IN  \/ Finish("get_video_title_suggestions", a, <<Call(PYYT, "Suggestions.get")>>,
                     <<Fail>>, Exc("engine"), "closed")
           \/ \E l \in ResultLists :
                  \E v \in (IF l = <<>> THEN {a.query} ELSE Range(l)) :
                      Finish("get_video_title_suggestions", a,
                             <<Call(PYYT, "Suggestions.get")>>, <<Ok(l)>>, Ret(v), "closed")
    /\ UNCHANGED <<idvars, fsvars>>

\* channel_id_from_name(query): the first channel channel_search finds; an
\* empty list has no element 0.
channel_id_from_name ==
    /\ pc = "idle"
    /\ \/ Finish("channel_id_from_name", NoArg, <<Call(PYYT, "ChannelsSearch.next")>>,
                 <<Fail>>, Exc("engine"), "closed")
       \/ \E l \in ResultLists :
              Finish("channel_id_from_name", NoArg, <<Call(PYYT, "ChannelsSearch.next")>>,
                     <<Ok(l)>>, IF l = <<>> THEN Exc("IndexError") ELSE Ret(l[1]), "closed")
    /\ UNCHANGED <<idvars, fsvars>>

\* search_videos_from_channel(channel_id, query): the answer itself is returned.
search_videos_from_channel ==
    /\ pc = "idle"
    /\ search_once("search_videos_from_channel", "ChannelSearch.next")
    /\ UNCHANGED <<idvars, fsvars>>

---------------------------------------------------------------------------
(* The operations that page through results *)

\* The largest pages argument passed to search_videos.
MaxPages == 3

\* The most further pages a playlist or a channel reports.
MaxMore == 2

\* The 'result' lists of a page of search results.
PageLists == {<<>>, <<"x">>, <<"y", "z">>}

\* What an awaited VideosSearch.next() may give: an exception, nothing, a
\* mapping with no 'result', a mapping with a 'result' list.
PageAnswers ==
    {Fail, [kind |-> "none"]}
    \cup {[kind |-> "dict", has |-> FALSE, result |-> <<>>]}
    \cup {[kind |-> "dict", has |-> TRUE, result |-> l] : l \in PageLists}

\* result.get('result', []) if result else []
first_wdata(r) == IF r.kind = "dict" /\ r.has THEN r.result ELSE <<>>

\* if result and 'result' in result: wdata.extend(result['result'])
extend_wdata(w, r) == IF r.kind = "dict" /\ r.has THEN w \o r.result ELSE w

\* The loop with one iteration too many: range(pages).
more_pages_off_by_one(i, pages) == i < pages

\* for i in range(pages-1): whether iteration i runs.
more_pages(i, pages) == i < pages - 1

\* search_videos(query, pages): the search object is made and its first page
\* is requested.
search_videos ==
    /\ pc = "idle"
    /\ \E pages \in 0..MaxPages :
           Begin("search_videos", [NoArg EXCEPT !.pages = pages],
                 Call(PYYT, "VideosSearch.next"))
    /\ UNCHANGED <<idvars, fsvars>>

\* A page request made after the first one has raised: except: break, and the
\* pages gathered so far are returned.
later_page_failed(r, w) == End(r, Ret(w), w)

\* search_videos: the awaited page request is answered.  Len(seen) answers
\* came before it, so it is the first request when Len(seen) = 0 and the
\* request of iteration Len(seen) - 1 otherwise; the next iteration is
\* iteration Len(seen).
search_videos_next ==
    /\ op = "search_videos"
    /\ pc = "await"
    /\ \E r \in PageAnswers :
           LET n == Len(seen)
               w == IF r.kind = "fail" THEN wdata
                    ELSE IF n = 0 THEN first_wdata(r)
                    ELSE extend_wdata(wdata, r)
           IN  IF r.kind = "fail" /\ n = 0 THEN End(r, Exc("engine"), w)
               ELSE IF r.kind = "fail" THEN later_page_failed(r, w)
               ELSE IF more_pages(n, arg.pages)
               THEN Continue(r, Call(PYYT, "VideosSearch.next"), w)
               ELSE End(r, Ret(w), w)
    /\ UNCHANGED <<idvars, fsvars>>

\* What a request for a page of a playlist or channel may give: an exception,
\* or a page and whether there are more (has_more).
MoreAnswers == {Fail} \cup {[kind |-> "ok", more |-> m] : m \in BOOLEAN}

\* A page request that raised, caught the way search_videos catches it: the
\* pages gathered so far are returned.
paged_failed_swallowed(r) == End(r, Ret(wdata), wdata)

\* A page request of a playlist or a channel raised: nothing catches it.
paged_failed(r) == End(r, Exc("engine"), wdata)

\* A paging loop: while the object reports more, request the next page with
\* method m; an exception of any request leaves the operation.
paged_next(o, m) ==
    /\ op = o
    /\ pc = "await"
    /\ \E r \in MoreAnswers :
           /\ r.kind = "ok" /\ r.more => Len(calls) <= MaxMore
           /\ IF r.kind = "fail" THEN paged_failed(r)
              ELSE IF r.more THEN Continue(r, Call(PYYT, m), Append(wdata, "page"))
              ELSE End(r, Ret(Append(wdata, "page")), Append(wdata, "page"))
    /\ UNCHANGED <<idvars, fsvars>>

\* get_playlist(playlist_id): Playlist.get is awaited.
get_playlist ==
    /\ pc = "idle"
    /\ Begin("get_playlist", NoArg, Call(PYYT, "Playlist.get"))
    /\ UNCHANGED <<idvars, fsvars>>

\* get_playlist: while playlist.hasMoreVideos: await playlist.getNextVideos()
get_playlist_next == paged_next("get_playlist", "Playlist.getNextVideos")

\* all_videos_from_channel(channel_id): channel.init() is awaited.
all_videos_from_channel ==
    /\ pc = "idle"
    /\ Begin("all_videos_from_channel", NoArg, Call(PYYT, "Channel.init"))
    /\ UNCHANGED <<idvars, fsvars>>

\* all_videos_from_channel: while channel.has_more_videos(): await channel.next()
all_videos_from_channel_next == paged_next("all_videos_from_channel", "Channel.next")

\* all_playlists_from_channel(channel_id): channel.init() is awaited.
all_playlists_from_channel ==
    /\ pc = "idle"
    /\ Begin("all_playlists_from_channel", NoArg, Call(PYYT, "Channel.init"))
    /\ UNCHANGED <<idvars, fsvars>>

\* all_playlists_from_channel: while channel.has_more_playlists(): await channel.next()
all_playlists_from_channel_next == paged_next("all_playlists_from_channel", "Channel.next")

---------------------------------------------------------------------------
(* get_comments *)

\* A comment of the engine: a mapping with some of the keys text, author and
\* timestamp, or something that is no mapping.
Comment(ks, t, a, ts) == [dict |-> TRUE, has |-> ks, text |-> t, author |-> a, timestamp |-> ts]

NotAMapping == [dict |-> FALSE, has |-> {}, text |-> "", author |-> "", timestamp |-> 0]

CommentLists ==
    {<<>>,
     <<Comment({"text", "author", "timestamp"}, "hi", "ann", 7)>>,
     <<Comment({"text", "timestamp"}, "yo", "", 9),
       Comment({"text", "author", "timestamp"}, "hi", "ann", 7)>>,
     <<Comment({"author"}, "", "bob", 0), Comment({}, "", "", 0),
       Comment({"text", "timestamp"}, "yo", "", 9)>>,
     <<Comment({"text", "author", "timestamp"}, "hi", "ann", 7), NotAMapping>>}

\* What extract_info may give get_comments: an exception, None, an info with
\* no 'comments', an info whose 'comments' is None, an info with comments.
CommentAnswers ==
    {Fail, [kind |-> "none"], [kind |-> "info", comments |-> "absent", list |-> <<>>],
     [kind |-> "info", comments |-> "None", list |-> <<>>]}
    \cup {[kind |-> "info", comments |-> "list", list |-> l] : l \in CommentLists}

\* {'text': c.get('text', ''), 'author': c.get('author', ''), 'time': c.get('timestamp', 0)}
reshape_comment(c) ==
    [text   |-> IF "text" \in c.has THEN c.text ELSE "",
     author |-> IF "author" \in c.has THEN c.author ELSE "",
     time   |-> IF "timestamp" \in c.has THEN c.timestamp ELSE 0]

\* The body of the try block, given the answer of extract_info.
comments_body(r) ==
    IF r.kind = "fail" THEN Exc("engine")
    ELSE IF r.kind = "none" THEN Exc("AttributeError")
    ELSE IF r.comments = "absent" THEN Ret(<<>>)
    ELSE IF r.comments = "None" THEN Exc("TypeError")
    ELSE IF \E i \in 1..Len(r.list) : ~r.list[i].dict THEN Exc("AttributeError")
    ELSE Ret([i \in 1..Len(r.list) |-> reshape_comment(r.list[i])])

\* The try block with no except clause.
comments_no_except(res) == res

\* except Exception as e: return []
comments_except(res) == IF res.outcome = "raise" THEN Ret(<<>>) ELSE res

\* get_comments asking the search client for the comments when the
\* extraction raises.
get_comments_client_fallback ==
    /\ pc = "idle"
    /\ \/ Finish("get_comments", NoArg,
                 <<Call(YTDL, "YoutubeDL"), Call(YTDL, "extract_info"),
                   Call(PYYT, "Comments.get")>>,
                 <<Ok(<<>>), Fail, Ok(<<>>)>>, Ret(<<>>), "none")
       \/ \E r \in CommentAnswers \ {Fail} :
              Finish("get_comments", NoArg,
                     <<Call(YTDL, "YoutubeDL"), Call(YTDL, "extract_info")>>,
                     <<Ok(<<>>), r>>, comments_except(comments_body(r)), "none")
    /\ UNCHANGED <<idvars, fsvars>>

\* get_comments(video_id)
get_comments ==
    /\ pc = "idle"
    /\ \/ Finish("get_comments", NoArg, <<Call(YTDL, "YoutubeDL")>>, <<Fail>>,
                 comments_except(Exc("engine")), "none")
       \/ \E r \in CommentAnswers :
              Finish("get_comments", NoArg,
                     <<Call(YTDL, "YoutubeDL"), Call(YTDL, "extract_info")>>,
                     <<Ok(<<>>), r>>, comments_except(comments_body(r)), "none")
    /\ UNCHANGED <<idvars, fsvars>>

---------------------------------------------------------------------------
(* get_video_info and return_dislikes *)

\* What Video.getInfo may give: an exception, None, a video info.
InfoAnswers == {Fail, [kind |-> "none"], [kind |-> "info"]}

\* What requests.get may give return_dislikes: an exception, a body that is
\* no JSON, a JSON object with some of the keys likes, dislikes and rating.
Votes == {[likes |-> 10, dislikes |-> 2, rating |-> 4],
          [likes |-> 0, dislikes |-> 5, rating |-> 1]}

DislikeAnswers ==
    {Fail, [kind |-> "text"]}
    \cup {[kind |-> "json", keys |-> ks, votes |-> v] :
              ks \in SUBSET {"likes", "dislikes", "rating"}, v \in Votes}

\* The video info with the three values of the dislike response put in.
video_info(d) == [info |-> "videoInfo", likes |-> d.votes.likes,
                  dislikes |-> d.votes.dislikes, averageRating |-> d.votes.rating]

\* The body of the try block once Video.getInfo has answered i and
\* requests.get has answered d.
video_info_body(i, d) ==
    IF d.kind = "fail" THEN Exc("engine")
    ELSE IF d.kind = "text" THEN Exc("JSONDecodeError")
    ELSE IF "likes" \notin d.keys THEN Exc("KeyError")
    ELSE IF i.kind = "none" THEN Exc("TypeError")
    ELSE IF "dislikes" \notin d.keys \/ "rating" \notin d.keys THEN Exc("KeyError")
    ELSE Ret(video_info(d))

\* An except clause that raises what it caught.
video_info_reraise(res) == res

\* except: raise Exception("Can't get video info. ...")
video_info_except(res) == IF res.outcome = "raise" THEN Exc("generic") ELSE res

\* get_video_info(video_id)
get_video_info ==
    /\ pc = "idle"
    /\ \/ Finish("get_video_info", NoArg, <<Call(PYYT, "Video.getInfo")>>, <<Fail>>,
                 video_info_except(Exc("engine")), "closed")
       \/ \E i \in InfoAnswers \ {Fail}, d \in DislikeAnswers :
              Finish("get_video_info", NoArg,
                     <<Call(PYYT, "Video.getInfo"), Call(RYD, "requests.get")>>,
                     <<i, d>>, video_info_except(video_info_body(i, d)), "closed")
    /\ UNCHANGED <<idvars, fsvars>>

---------------------------------------------------------------------------
(* get_subtitles *)

\* Video ids, all of the same length: none is a prefix of another.
YtIds == {"LDU_Txk06tM", "a-b_c-d_e-f"}

\* The output_dir arguments.
DirArgs == {<<"d">>, <<"d", "/">>, <<"[", "d", "]">>}

\* The id and the directory get_subtitles is called with in Spec.
OpsYtIds == {"LDU_Txk06tM"}

OpsDirArgs == {<<"d">>}

\* The languages of the user-provided subtitles of a video, in the engine's order.
SubtitleKeys == {<<>>, <<"fr", "en">>}

File(d, y, l, e) == [dir |-> d, ytid |-> y, lang |-> l, ext |-> e]

\* The value None, where a path is expected.
NoPath == File(<<>>, "", "", "")

\* if output_dir.endswith('/'): output_dir = output_dir[:-1]
strip_slash(d) ==
    IF d # <<>> /\ d[Len(d)] = "/" THEN SubSeq(d, 1, Len(d) - 1) ELSE d

\* glob.has_magic
has_magic(p) == \E i \in 1..Len(p) : p[i] \in {"*", "?", "["}

\* Where the character class that opens at p[1] = "[" closes, 0 when it does
\* not close: a "!" and then a "]" right after the "[" belong to the class.
ClassEnd(p) ==
    LET k1 == IF Len(p) >= 2 /\ p[2] = "!" THEN 3 ELSE 2
        k2 == IF Len(p) >= k1 /\ p[k1] = "]" THEN k1 + 1 ELSE k1
    IN  IF \E j \in k2..Len(p) : p[j] = "]"
        THEN CHOOSE j \in k2..Len(p) : p[j] = "]" /\ \A i \in k2..(j - 1) : p[i] # "]"
        ELSE 0

\* fnmatch.fnmatch(s, p) for a file name s and a pattern p of characters,
\* "*", "?" and classes "[seq]" and "[!seq]" (classes with ranges are not in
\* the model's patterns).
RECURSIVE fnmatch(_, _)
fnmatch(s, p) ==
    IF p = <<>> THEN s = <<>>
    ELSE IF p[1] = "*"
    THEN fnmatch(s, Tail(p)) \/ (s # <<>> /\ fnmatch(Tail(s), p))
    ELSE IF p[1] = "?"
    THEN s # <<>> /\ fnmatch(Tail(s), Tail(p))
    ELSE IF p[1] = "[" /\ ClassEnd(p) > 0
    THEN LET j == ClassEnd(p)
             neg == p[2] = "!"
             class == Range(SubSeq(p, IF neg THEN 3 ELSE 2, j - 1))
         IN  /\ s # <<>>
             /\ (s[1] \in class) # neg
             /\ fnmatch(Tail(s), SubSeq(p, j + 1, Len(p)))
    ELSE s # <<>> /\ s[1] = p[1] /\ fnmatch(Tail(s), Tail(p))

\* Whether glob takes the directory named dir for the directory part p of
\* its pattern: a part with no magic character is a name, looked up as it is;
\* a part with one is a pattern the directory names are matched against.
glob_dir(dir, p) == IF has_magic(p) THEN fnmatch(dir, p) ELSE dir = p

\* glob.glob(outtmpl + '*.vtt') for outtmpl = {output_dir}/subtitles/{ytid}:
\* the .vtt files whose name starts with the id, in the directories the
\* output_dir part of the pattern matches.
glob_vtt(d, y) == {f \in files : glob_dir(f.dir, d) /\ f.ytid = y /\ f.ext = "vtt"}

\* get_subtitles(y, d) when no subtitle file exists yet: the engine is asked
\* for the video's subtitles and then to download one of them.  The download
\* writes {outtmpl}.{lang}.vtt, or the subtitle in another format when it has
\* no vtt, or nothing when the video has no such subtitle.
subtitles_download(a, y, d) ==
    LET o == "get_subtitles"
        new == Call(YTDL, "YoutubeDL")
        info == Call(YTDL, "extract_info")
        dl == Call(YTDL, "download")
    IN  \/ /\ Finish(o, a, <<new>>, <<Fail>>, Exc("engine"), "none")
           /\ UNCHANGED <<files, subs>>
        \/ /\ Finish(o, a, <<new, info>>, <<Ok(<<>>), Fail>>, Exc("engine"), "none")
           /\ UNCHANGED <<files, subs>>
        \/ \E keys \in SubtitleKeys :
               LET lang == IF keys # <<>> THEN keys[1] ELSE "en"
                   path == File(d, y, lang, "vtt")
               IN  \/ /\ Finish(o, a, <<new, info, new>>, <<Ok(<<>>), Ok(keys), Fail>>,
                                Exc("engine"), "none")
                      /\ UNCHANGED <<files, subs>>
                   \/ /\ Finish(o, a, <<new, info, new, dl>>,
                                <<Ok(<<>>), Ok(keys), Ok(<<>>), Fail>>, Exc("engine"), "none")
                      /\ UNCHANGED <<files, subs>>
                   \/ \E written \in {"vtt", "ttml", "nothing"} :
                          /\ files' = IF written = "vtt"
                                      THEN files \cup {File(d, y, lang, "vtt")}
                                      ELSE files
                          /\ subs' = IF path \in files'
                                     THEN [subs EXCEPT ![<<y, a.dir>>] = path]
                                     ELSE subs
                          /\ Finish(o, a, <<new, info, new, dl>>,
                                    <<Ok(<<>>), Ok(keys), Ok(<<>>), Ok(written)>>,
                                    Ret(IF path \in files' THEN path ELSE NoPath), "none")

\* get_subtitles(ytid, output_dir)
get_subtitles_call(y, dirarg) ==
    LET output_dir == strip_slash(dirarg)
        a == [NoArg EXCEPT !.ytid = y, !.dir = dirarg]
        existing_subtitles == glob_vtt(output_dir, y)
        known == subs[<<y, dirarg>>]
    IN  /\ pre' = IF known # NoPath /\ known \in files THEN known ELSE NoPath
        /\ IF existing_subtitles # {}
           THEN /\ \E f \in existing_subtitles :
                       Finish("get_subtitles", a, <<>>, <<>>, Ret(f), "none")
                /\ UNCHANGED <<files, subs>>
           ELSE subtitles_download(a, y, output_dir)

\* A call of get_subtitles, among the calls of the other operations.
get_subtitles ==
    /\ pc = "idle"
    /\ \E y \in OpsYtIds, d \in OpsDirArgs : get_subtitles_call(y, d)
    /\ UNCHANGED idvars

\* A call of get_subtitles with any of the ids and directories.
get_subtitles_any ==
    /\ pc = "idle"
    /\ \E y \in YtIds, d \in DirArgs : get_subtitles_call(y, d)
    /\ UNCHANGED idvars

\* Somebody removes a subtitle file: it is no longer the file a call downloaded.
RemoveFile ==
    /\ pc = "idle"
    /\ \E f \in files :
           /\ files' = files \ {f}
           /\ subs' = [k \in DOMAIN subs |-> IF subs[k] = f THEN NoPath ELSE subs[k]]
    /\ UNCHANGED <<idvars, opvars, pre>>

---------------------------------------------------------------------------
(* Spec: the operations, called one at a time *)

InitOps ==
    /\ op = "none"
    /\ pc = "idle"
    /\ arg = NoArg
    /\ calls = <<>>
    /\ seen = <<>>
    /\ inflight = 0
    /\ failed = FALSE
    /\ out = NoOut
    /\ loop = "none"
    /\ wdata = <<>>
    /\ files = {}
    /\ subs = [k \in YtIds \X DirArgs |-> NoPath]
    /\ pre = NoPath

Init ==
    /\ InitOps
    /\ idShape = [kind |-> "none"]
    /\ idInput = <<>>
    /\ idPc = "off"
    /\ idRes = NoResult
    /\ idPrev = NoResult

Next ==
    \/ get_video_streams
    \/ download_video
    \/ search_videos
    \/ search_videos_next
    \/ channel_search
    \/ playlist_search
    \/ get_playlist
    \/ get_playlist_next
    \/ get_video_title_suggestions
    \/ channel_id_from_name
    \/ all_videos_from_channel
    \/ all_videos_from_channel_next
    \/ search_videos_from_channel
    \/ get_comments
    \/ get_video_info
    \/ all_playlists_from_channel
    \/ all_playlists_from_channel_next
    \/ get_subtitles
    \/ RemoveFile

Spec == Init /\ [][Next]_vars

\* SpecSub: get_subtitles alone, called over and over with any of the ids
\* and directories, and files being removed in between.
NextSub == get_subtitles_any \/ RemoveFile

SpecSub == Init /\ [][NextSub]_vars

---------------------------------------------------------------------------
(* SpecId: extract_video_id applied to an input, and again to what it returned *)

InitId ==
    /\ idShape \in Shapes
    /\ idInput = Flatten(idShape)
    /\ idPc = "start"
    /\ idRes = NoResult
    /\ idPrev = NoResult
    /\ InitOps

\* The caller passes the input to extract_video_id.
CallExtract ==
    /\ idPc = "start"
    /\ idRes' = extract_video_id(idInput)
    /\ idPc' = "applied"
    /\ UNCHANGED <<idShape, idInput, idPrev>>
    /\ UNCHANGED <<opvars, fsvars>>

\* The caller passes the returned value to extract_video_id again.
CallExtractAgain ==
    /\ idPc = "applied"
    /\ idRes.outcome = "return"
    /\ idPrev' = idRes
    /\ idInput' = idRes.value
    /\ idRes' = extract_video_id(idRes.value)
    /\ idPc' = "reapplied"
    /\ UNCHANGED <<idShape, opvars, fsvars>>

NextId == CallExtract \/ CallExtractAgain

SpecId == InitId /\ [][NextId]_vars

---------------------------------------------------------------------------
(* Properties of extract_video_id, checked under SpecId *)

\* The string the caller first passed.
Passed == Flatten(idShape)

\* The input is a URL of a recognized shape carrying a valid id: a watch host
\* whose first v parameter is a valid id, or a short host whose last path
\* segment is a valid id, with or without "http://" or "https://".
Recognized(sh) ==
    /\ sh.kind = "url"
    /\ \/ sh.host \in WatchNetlocs /\ IsValidId(sh.query.v)
       \/ sh.host \in ShortNetlocs /\ IsValidId(sh.path.last)

\* The id such a URL carries.
EmbeddedId(sh) == IF sh.host \in WatchNetlocs THEN sh.query.v ELSE sh.path.last

\* C1: for every string s of exactly 11 characters out of letters, digits,
\* "_" and "-", extract_video_id(s) returns s, and so does extract_video_id
\* applied to that returned value.
C1_IdempotentOnValidIds ==
    IsValidId(Passed) =>
        /\ idPc = "applied" => idRes = Returned(Passed)
        /\ idPc = "reapplied" => idPrev = Returned(Passed) /\ idRes = idPrev

\* C1 witness: a valid id with a "-" in it came back unchanged twice.
C1_Witness ==
    /\ idPc = "reapplied"
    /\ IsValidId(Passed)
    /\ "-" \in Range(Passed)
    /\ idRes = Returned(Passed)

C3_MalformedRaisesNamingInput ==
    idPc = "applied" /\ ~IsValidId(str_strip(Passed)) /\ ~Recognized(idShape) =>
        /\ idRes.outcome = "raise"
        /\ idRes.exc = "ValueError"
        /\ idRes.got = str_strip(Passed)

\* C10: every value extract_video_id returns is a well-formed id: 11
\* characters, each a letter, a digit, "_" or "-".
C10_ReturnedIdWellFormed ==
    idRes.outcome = "return" => IsValidId(idRes.value)

---------------------------------------------------------------------------
(* Properties of the operations, checked under Spec and SpecSub *)

\* C4: once a call get_subtitles(ytid, output_dir) has downloaded a subtitle
\* file and returned its path, every later call with the same arguments made
\* while that file is there returns that path and calls the engine not at all.
C4_SubtitlesNotDownloadedAgain ==
    op = "get_subtitles" /\ pre # NoPath => out = Ret(pre) /\ calls = <<>>

\* The comments get_comments is to return for the comments cs of the engine.
ExpectedComments(cs, res) ==
    /\ Len(res) = Len(cs)
    /\ \A i \in 1..Len(cs) :
           /\ res[i].text = (IF "text" \in cs[i].has THEN cs[i].text ELSE "")
           /\ res[i].author = (IF "author" \in cs[i].has THEN cs[i].author ELSE "")
           /\ res[i].time = (IF "timestamp" \in cs[i].has THEN cs[i].timestamp ELSE 0)

\* Nothing failed in a call of get_comments: the engine was made, it
\* extracted an info, and the info's comments, if it has any, are mappings.
CommentsFine ==
    /\ Len(seen) = 2
    /\ seen[2].kind = "info"
    /\ seen[2].comments \in {"absent", "list"}
    /\ \A i \in 1..Len(seen[2].list) : seen[2].list[i].dict

\* C5: get_comments never raises: it returns the empty list whenever making
\* the engine, extracting the info or reshaping the comments fails, and one
\* {text, author, time} mapping per comment, in the engine's order, otherwise.
C5_CommentsNeverRaise ==
    op = "get_comments" =>
        /\ out.outcome = "return"
        /\ IF CommentsFine
           THEN ExpectedComments(seen[2].list, out.value)
           ELSE out.value = <<>>

\* C5 witness: the extraction raised and get_comments returned the empty list.
C5_Witness ==
    /\ op = "get_comments"
    /\ Len(seen) = 2
    /\ seen[2] = Fail
    /\ out = Ret(<<>>)

\* Nothing failed in a call of get_video_info: the lookup gave an info and the
\* dislike response is a JSON object with likes, dislikes and rating.
VideoInfoFine ==
    /\ Len(seen) = 2
    /\ seen[1].kind = "info"
    /\ seen[2].kind = "json"
    /\ {"likes", "dislikes", "rating"} \subseteq seen[2].keys

\* C6: get_video_info has two outcomes: the generic "Can't get video info"
\* exception whenever the lookup, the dislike lookup or the reading of its
\* response fails, and otherwise the video info with likes, dislikes and
\* averageRating taken from the dislike response.
C6_VideoInfoTwoOutcomes ==
    op = "get_video_info" =>
        IF VideoInfoFine
        THEN /\ out.outcome = "return"
             /\ out.value.likes = seen[2].votes.likes
             /\ out.value.dislikes = seen[2].votes.dislikes
             /\ out.value.averageRating = seen[2].votes.rating
        ELSE out = Exc("generic")

\* C6 witness: the dislike response lacked a key and the caller got the
\* generic exception.
C6_Witness ==
    /\ op = "get_video_info"
    /\ Len(seen) = 2
    /\ seen[1].kind = "info"
    /\ seen[2].kind = "json"
    /\ seen[2].keys = {"likes", "dislikes"}
    /\ out = Exc("generic")

\* The services an operation has called.
Services == {calls[i].svc : i \in 1..Len(calls)}

EngineOps == {"get_video_streams", "download_video", "get_comments", "get_subtitles"}

ClientOps == {"search_videos", "channel_search", "playlist_search", "get_playlist",
              "get_video_title_suggestions", "channel_id_from_name",
              "all_videos_from_channel", "search_videos_from_channel",
              "all_playlists_from_channel"}

\* C7: in every call of every operation, all external calls go to one and
\* the same service.
C7_OneCollaborator == Cardinality(Services) <= 1

\* C7 as amended: every operation but get_video_info calls one service only
\* (the engine, or the search client); get_video_info calls the search client
\* and then, unless that call raised, the dislike-count API.
C7_OneCollaboratorButVideoInfo ==
    /\ op \in EngineOps => Services \subseteq {YTDL}
    /\ op \in ClientOps => Services \subseteq {PYYT}
    /\ op = "get_video_info" =>
           /\ calls[1] = Call(PYYT, "Video.getInfo")
           /\ IF seen[1] = Fail
              THEN Len(calls) = 1
              ELSE Len(calls) = 2 /\ calls[2] = Call(RYD, "requests.get")
    /\ op \in EngineOps \cup ClientOps \cup {"get_video_info", "none"}

\* C7 witness: a call of get_video_info has called two services.
C7_Witness ==
    /\ op = "get_video_info"
    /\ Services = {PYYT, RYD}

\* The 'result' lists of the answers in sn, one after the other.
RECURSIVE ConcatResults(_)
ConcatResults(sn) ==
    IF sn = <<>> THEN <<>>
    ELSE (IF Head(sn).kind = "dict" /\ Head(sn).has THEN Head(sn).result ELSE <<>>)
             \o ConcatResults(Tail(sn))

NotFail(r) == r # Fail

\* C8: in every operation but get_comments and get_video_info, an external
\* call that raises is not handled: the caller gets its exception, and no
\* value is returned once an external call has failed.
C8_FailuresPropagate ==
    op \notin {"get_comments", "get_video_info"} /\ failed => out = Exc("engine")

\* C8 as amended: the same, but for the page requests of search_videos after
\* the first: search_videos lets a failure of its first page request go to the
\* caller, and on a failure of a later one stops and returns the pages it has.
C8_FailuresPropagateButLaterPages ==
    /\ op \notin {"get_comments", "get_video_info", "search_videos"} /\ failed
           => out = Exc("engine")
    /\ op = "search_videos" /\ failed =>
           IF Len(seen) = 1
           THEN out = Exc("engine")
           ELSE out = Ret(ConcatResults(SelectSeq(seen, NotFail)))

\* C8 witness: the third request of all_videos_from_channel raised and the
\* caller got that exception.
C8_Witness ==
    /\ op = "all_videos_from_channel"
    /\ Len(seen) = 3
    /\ seen[3] = Fail
    /\ out = Exc("engine")

\* max(1, pages)
AtLeastOne(pages) == IF pages > 1 THEN pages ELSE 1

\* C9: search_videos makes its page requests one after another (a request is
\* made only when every earlier one has been answered), all on the same
\* search, at least one and at most max(1, pages); what it returns is the
\* 'result' lists of the pages it got, in order; and the event loop lives
\* from the call to its end.
C9_SearchPagesInSequence ==
    op = "search_videos" =>
        /\ inflight \in {0, 1}
        /\ Len(calls) = Len(seen) + inflight
        /\ (pc = "await") = (inflight = 1)
        /\ \A i \in 1..Len(calls) : calls[i] = Call(PYYT, "VideosSearch.next")
        /\ Len(calls) >= 1
        /\ Len(calls) <= AtLeastOne(arg.pages)
        /\ out.outcome = "return" => out.value = ConcatResults(SelectSeq(seen, NotFail))
        /\ loop = (IF pc = "await" THEN "running" ELSE "closed")
        /\ pc = "await" => out = NoOut

\* C9 witness: three pages were asked for, three were fetched, and their
\* results came back in order.
C9_Witness ==
    /\ op = "search_videos"
    /\ arg.pages = 3
    /\ Len(seen) = 3
    /\ out = Ret(<<"y", "z", "x", "y", "z">>)
    /\ loop = "closed"

=============================================================================
